---------------------------- MODULE Spec2Model ----------------------------
(***************************************************************************)
(* NetDynamics (src/netdynamics.c): the entity replication subsystem.      *)
(*                                                                         *)
(* The source builds two programs from one file: the server                *)
(* (NETDYNAMICS_SERVER) and the client (NETDYNAMICS_CLIENT).  Both are     *)
(* modelled here, with the ENet channel between them.  Definitions that    *)
(* exist in both builds carry the prefix server_ or client_.               *)
(*                                                                         *)
(* Numbers.  float values are modelled by integers (exact arithmetic).     *)
(* uint32_t arithmetic wraps modulo UINT32_MOD.  The capacity, the batch   *)
(* size and the integer width are scaled down together so that the model  *)
(* is finite: capacity stays a multiple of the batch size and stays far   *)
(* below the integer width, as in the source (100000 = 10000 * 10 < 2^32). *)
(***************************************************************************)
EXTENDS Integers, Sequences, FiniteSets, TLC

(***************************************************************************)
(* Program constants                                                       *)
(***************************************************************************)
\* number of whole batches that fit the store (100000 / 10 in the source)
MaxBatches == 2

\* #define NET_MAX_ENTITY_SPAWN 10 (scaled)
NET_MAX_ENTITY_SPAWN == 2

\* #define NET_MAX_ENTITIES 100000 (scaled: MaxBatches batches)
NET_MAX_ENTITIES == MaxBatches * NET_MAX_ENTITY_SPAWN

\* #define NET_MAX_ENTITY_SPEED 80.0f
NET_MAX_ENTITY_SPEED == 80

NET_MESSAGE_SPAWN == 10

NET_MESSAGE_MOVE == 11

NET_MESSAGE_DESTROY == 12

NET_TRANSPORT_ENET == 1

\* static const int textureWidth = 32, textureHeight = 32
textureWidth == 32

textureHeight == 32

TEXTURE_OFFSET == 8

\* typedef uint32_t Entity: the width of the unsigned arithmetic (scaled)
UINT32_MOD == 32

UINT32_MAX == UINT32_MOD - 1

\* 1.0f seconds, in ticks of the model's clock
OneSecond == 4

\* static const Color colors[]
colors ==
  << [r |-> 250, g |-> 250, b |-> 250, a |-> 255],
     [r |-> 255, g |-> 0,   b |-> 90,  a |-> 255],
     [r |-> 94,  g |-> 8,   b |-> 255, a |-> 255],
     [r |-> 0,   g |-> 80,  b |-> 255, a |-> 255],
     [r |-> 0,   g |-> 220, b |-> 255, a |-> 255],
     [r |-> 255, g |-> 255, b |-> 14,  a |-> 255] >>

(***************************************************************************)
(* Basic values                                                            *)
(***************************************************************************)
Min(a, b) == IF a <= b THEN a ELSE b

\* uint32_t: every result of unsigned arithmetic is reduced modulo 2^w
U32(n) == n % UINT32_MOD

Vec(x, y) == [x |-> x, y |-> y]

ZeroVec == Vec(0, 0)

ZeroColor == [r |-> 0, g |-> 0, b |-> 0, a |-> 0]

\* the valid indices of a component array of NET_MAX_ENTITIES elements
Slots == 0 .. (NET_MAX_ENTITIES - 1)

\* je_calloc(NET_MAX_ENTITIES, sizeof(Vector2)) and sizeof(Color)
CallocVec == [i \in Slots |-> ZeroVec]

CallocColor == [i \in Slots |-> ZeroColor]

\* a store through an index: array[i] = v.  An index outside the array is
\* an out-of-bounds write; it lands past the allocation and changes no
\* element of the array.
Store(array, i, v) == IF i \in DOMAIN array THEN [array EXCEPT ![i] = v] ELSE array

(***************************************************************************)
(* State                                                                   *)
(*   settings  the Settings record read from settings.ini                  *)
(*   server    the server build: entity (the count), position, speed,      *)
(*             color, connected, sendTime, deltaTime, pc (its place in the *)
(*             frame) and frame (the frames run so far)                    *)
(*   client    per client build: entity, position, speed, color,           *)
(*             destination, connected and status                           *)
(*   peer      the transport's view of each peer's connection              *)
(*   ordered   per client, the reliable packets from the server, in order  *)
(*   unordered per client, the unreliable packets in flight                *)
(*   requests  per client, the reliable packets to the server, in order    *)
(*   sent      the packets handed to the transport by the last step        *)
(*   last      the last step taken: the operation and its arguments        *)
(*   oob       the out-of-bounds accesses of the last step                 *)
(*   obs       observation window of the send timer (SpecTimer)            *)
(***************************************************************************)
VARIABLES settings, server, client, peer, ordered, unordered, requests, sent, last, oob, obs

vars == << settings, server, client, peer, ordered, unordered, requests, sent, last, oob, obs >>

(***************************************************************************)
(* Systems: the entity store of the server build                           *)
(***************************************************************************)
\* #define ENTITIES_EXIST() color[0].a != 0
ENTITIES_EXIST(st) == st.color[0].a # 0

\* array[i].a = a left out: the variant the probe's consistency is run
\* against to show that it depends on entity_destroy clearing the alpha
StoreAlpha_skipped(array, i, a) == array

\* array[i].a = a, nothing stored when i is outside the array
StoreAlpha(array, i, a) == IF i \in DOMAIN array THEN [array EXCEPT ![i].a = a] ELSE array

\* array[i], or what lies in memory past the array when i is outside it
Load(array, i, junk) == IF i \in DOMAIN array THEN array[i] ELSE junk

\* the loop of entity_spawn: i runs from the old count to entities, a slot
\* is filled only while entity < NET_MAX_ENTITIES.  rnd[i] is what
\* RayGetRandomValue yields for slot i: a velocity and a palette index.
RECURSIVE server_spawn_loop(_, _, _, _, _)
server_spawn_loop(st, i, entities, positionComponent, rnd) ==
  IF ~(i < entities) THEN st
  ELSE server_spawn_loop(
         IF st.entity < NET_MAX_ENTITIES
           THEN [st EXCEPT !.entity = U32(@ + 1),
                           !.position = Store(@, i, positionComponent),
                           !.speed = Store(@, i, rnd[i].speed),
                           !.color = Store(@, i, colors[rnd[i].color + 1])]
           ELSE st,
         U32(i + 1), entities, positionComponent, rnd)

\* entity_spawn with the test "entity < NET_MAX_ENTITIES" left out: the
\* variant the count invariant is run against to show that it depends on
\* the test
server_entity_spawn_uncapped(st, positionComponent, quantity, rnd) ==
  [st EXCEPT !.entity = U32(@ + quantity)]

\* entity_spawn(Vector2 positionComponent, uint32_t quantity), server
server_entity_spawn(st, positionComponent, quantity, rnd) ==
  server_spawn_loop(st, st.entity, U32(st.entity + quantity), positionComponent, rnd)

\* one entity of entity_move (server): integrate, then reflect at the edges
server_move_one(p, v, movementSpeed, deltaTime) ==
  LET x == p.x + v.x * movementSpeed * deltaTime
      y == p.y + v.y * movementSpeed * deltaTime
      vx == IF (x + textureWidth \div 2 + TEXTURE_OFFSET > settings.resolutionWidth)
               \/ (x + textureWidth \div 2 - TEXTURE_OFFSET < 0)
            THEN -v.x ELSE v.x
      vy == IF (y + textureHeight \div 2 + TEXTURE_OFFSET > settings.resolutionHeight)
               \/ (y + textureHeight \div 2 - TEXTURE_OFFSET < 0)
            THEN -v.y ELSE v.y
  IN [position |-> Vec(x, y), speed |-> Vec(vx, vy)]

\* entity_move(float movementSpeed, float deltaTime), server
server_entity_move(st, movementSpeed, deltaTime) ==
  [st EXCEPT
     !.position = [i \in Slots |-> IF i < st.entity
                     THEN server_move_one(st.position[i], st.speed[i], movementSpeed, deltaTime).position
                     ELSE st.position[i]],
     !.speed = [i \in Slots |-> IF i < st.entity
                     THEN server_move_one(st.position[i], st.speed[i], movementSpeed, deltaTime).speed
                     ELSE st.speed[i]]]

\* entity_destroy without the store to color[entityLocal].a: the variant
\* the truncation property is run against to show that it depends on it
server_entity_destroy_unmarked(st, entityLocal) ==
  [st EXCEPT !.entity = entityLocal]

\* entity_destroy(Entity entityLocal), server
server_entity_destroy(st, entityLocal) ==
  [st EXCEPT !.entity = entityLocal, !.color = StoreAlpha(@, entityLocal, 0)]

(***************************************************************************)
(* Systems: the entity store of the client build                           *)
(***************************************************************************)
\* entity_spawn(entityRemote, positionComponent, speedComponent, colorComponent)
client_entity_spawn(st, entityRemote, positionComponent, speedComponent, colorComponent) ==
  [st EXCEPT !.entity = entityRemote,
             !.position = Store(@, entityRemote, positionComponent),
             !.speed = Store(@, entityRemote, speedComponent),
             !.color = Store(@, entityRemote, colorComponent)]

\* sqrtf on the model's numbers: the integer square root
sqrtf(n) == CHOOSE r \in 0 .. n : r * r <= n /\ n < (r + 1) * (r + 1)

\* a / b on the model's numbers, rounding toward zero
FloatDiv(a, b) == IF a >= 0 THEN a \div b ELSE -((-a) \div b)

\* entity_move without the test that snaps to the destination: the
\* variant the convergence property is run against to show that it
\* depends on the test
client_entity_move_unclamped(positionComponent, destinationComponent, maxDistanceDelta, movementSpeed, deltaTime) ==
  LET toVectorX == destinationComponent.x - positionComponent.x
      toVectorY == destinationComponent.y - positionComponent.y
      squareDistance == toVectorX * toVectorX + toVectorY * toVectorY
      step == maxDistanceDelta * movementSpeed * deltaTime
      distance == sqrtf(squareDistance)
  IN IF squareDistance = 0
       THEN destinationComponent
       ELSE Vec(positionComponent.x + FloatDiv(toVectorX * step, distance),
                positionComponent.y + FloatDiv(toVectorY * step, distance))

\* entity_move(positionComponent, destinationComponent, maxDistanceDelta,
\* movementSpeed, deltaTime), client: the new *positionComponent.
\* toVector / distance * step is evaluated as toVector * step / distance.
client_entity_move(positionComponent, destinationComponent, maxDistanceDelta, movementSpeed, deltaTime) ==
  LET toVectorX == destinationComponent.x - positionComponent.x
      toVectorY == destinationComponent.y - positionComponent.y
      squareDistance == toVectorX * toVectorX + toVectorY * toVectorY
      step == maxDistanceDelta * movementSpeed * deltaTime
      distance == sqrtf(squareDistance)
  IN IF squareDistance = 0 \/ (step >= 0 /\ squareDistance <= step * step)
       THEN destinationComponent
       ELSE Vec(positionComponent.x + FloatDiv(toVectorX * step, distance),
                positionComponent.y + FloatDiv(toVectorY * step, distance))

\* entity_update that moves the entity at once: the variant the Move
\* effect is run against to show that it depends on the position being
\* left alone
client_entity_update_at_once(st, entityRemote, positionComponent, speedComponent) ==
  [st EXCEPT !.destination = Store(@, entityRemote, positionComponent),
             !.position = Store(@, entityRemote, positionComponent),
             !.speed = Store(@, entityRemote, speedComponent)]

\* entity_update(entityRemote, positionComponent, speedComponent)
client_entity_update(st, entityRemote, positionComponent, speedComponent) ==
  [st EXCEPT !.destination = Store(@, entityRemote, positionComponent),
             !.speed = Store(@, entityRemote, speedComponent)]

\* entity_destroy that clears the alpha and leaves the count alone: the
\* variant the count convergence is run against to show that it depends on
\* the client taking the cutoff for its count
client_entity_destroy_keeping_count(st, entityRemote) ==
  [st EXCEPT !.color = StoreAlpha(@, entityRemote, 0)]

\* entity_destroy(Entity entityRemote), client
client_entity_destroy(st, entityRemote) ==
  [st EXCEPT !.entity = entityRemote, !.color = StoreAlpha(@, entityRemote, 0)]

\* memset(array, 0, sizeof(Vector2)) and memset(color, 0, sizeof(Color)):
\* the size is that of ONE element, so only element 0 is cleared
memset_one(array, zero) == Store(array, 0, zero)

\* entity_flush(void)
client_entity_flush(st) ==
  [st EXCEPT !.entity = 0,
             !.position = memset_one(@, ZeroVec),
             !.speed = memset_one(@, ZeroVec),
             !.color = memset_one(@, ZeroColor),
             !.destination = memset_one(@, ZeroVec)]

(***************************************************************************)
(* Serialization: the binn list.  A list is the sequence of its items,     *)
(* each with the type it is stored under and its value.                    *)
(***************************************************************************)
\* binn_list()
binn_list == << >>

\* binn stores an unsigned integer under the smallest type that holds it
binn_int_type(v) == IF v < 256 THEN "uint8" ELSE IF v < 65536 THEN "uint16" ELSE "uint32"

binn_list_add_uint8(data, v) == Append(data, [type |-> "uint8", value |-> v % 256])

binn_list_add_uint32(data, v) == Append(data, [type |-> binn_int_type(v), value |-> v])

binn_list_add_float(data, v) == Append(data, [type |-> "float", value |-> v])

binn_list_add_blob(data, size) == Append(data, [type |-> "blob", value |-> size])

\* binn_list_float reading the item after the one asked for: the variant
\* the round trip is run against to show that it depends on the positions
binn_list_float_next(data, pos) ==
  IF pos + 1 \in DOMAIN data /\ data[pos + 1].type = "float" THEN data[pos + 1].value ELSE 0

\* the typed reads; a position that holds no item of the family reads as 0
binn_is_int(data, pos) == pos \in DOMAIN data /\ data[pos].type \in {"uint8", "uint16", "uint32"}

binn_list_uint8(data, pos) == IF binn_is_int(data, pos) /\ data[pos].value < 256 THEN data[pos].value ELSE 0

binn_list_uint32(data, pos) == IF binn_is_int(data, pos) THEN data[pos].value ELSE 0

binn_list_float(data, pos) == IF pos \in DOMAIN data /\ data[pos].type = "float" THEN data[pos].value ELSE 0

\* if (settings.redundantBytes > 0) binn_list_add_blob(data, redundancyBuffer, ...)
add_redundancy(data) ==
  IF settings.redundantBytes > 0 THEN binn_list_add_blob(data, settings.redundantBytes) ELSE data

\* enet_packet_create(binn_ptr(data), binn_size(data), flag): the packets a
\* send hands to the transport, none when the transport is not ENet
enet_packet_create(transport, data, reliable) ==
  IF transport = NET_TRANSPORT_ENET THEN << [data |-> data, reliable |-> reliable] >> ELSE << >>

\* the fields of a Spawn record of the server: id, position, speed, r, g, b
spawn_fields(data, st, entityLocal, junk) ==
  LET p == Load(st.position, entityLocal, junk.position)
      v == Load(st.speed, entityLocal, junk.speed)
      c == Load(st.color, entityLocal, junk.color)
  IN binn_list_add_uint8(binn_list_add_uint8(binn_list_add_uint8(
       binn_list_add_float(binn_list_add_float(
         binn_list_add_float(binn_list_add_float(
           binn_list_add_uint32(data, entityLocal), p.x), p.y), v.x), v.y), c.r), c.g), c.b)

\* the fields of a Move record: id, position, speed
move_fields(data, st, entityLocal, junk) ==
  LET p == Load(st.position, entityLocal, junk.position)
      v == Load(st.speed, entityLocal, junk.speed)
  IN binn_list_add_float(binn_list_add_float(
       binn_list_add_float(binn_list_add_float(
         binn_list_add_uint32(data, entityLocal), p.x), p.y), v.x), v.y)

\* message_send_to_all that sends every kind as reliable: the variant the
\* reliability policy is run against to show that it depends on the flag
\* of the Move branch
message_send_to_all_reliable(st, transport, id, entityLocal, junk) ==
  LET data == binn_list_add_uint8(binn_list, id)
  IN IF id = NET_MESSAGE_SPAWN
       THEN enet_packet_create(transport, add_redundancy(spawn_fields(data, st, entityLocal, junk)), TRUE)
     ELSE IF id = NET_MESSAGE_MOVE
       THEN enet_packet_create(transport, add_redundancy(move_fields(data, st, entityLocal, junk)), TRUE)
     ELSE IF id = NET_MESSAGE_DESTROY
       THEN enet_packet_create(transport, add_redundancy(binn_list_add_uint32(data, entityLocal)), TRUE)
     ELSE << >>

\* message_send_to_all(transport, id, entityLocal), server: the packets
\* broadcast (none for an unknown id: goto escape)
message_send_to_all(st, transport, id, entityLocal, junk) ==
  LET data == binn_list_add_uint8(binn_list, id)
  IN IF id = NET_MESSAGE_SPAWN
       THEN enet_packet_create(transport, add_redundancy(spawn_fields(data, st, entityLocal, junk)), TRUE)
     ELSE IF id = NET_MESSAGE_MOVE
       THEN enet_packet_create(transport, add_redundancy(move_fields(data, st, entityLocal, junk)), FALSE)
     ELSE IF id = NET_MESSAGE_DESTROY
       THEN enet_packet_create(transport, add_redundancy(binn_list_add_uint32(data, entityLocal)), TRUE)
     ELSE << >>

\* message_send(transport, client, id, entityLocal), server build
server_message_send(st, transport, id, entityLocal, junk) ==
  LET data == binn_list_add_uint8(binn_list, id)
  IN IF id = NET_MESSAGE_SPAWN
       THEN enet_packet_create(transport, add_redundancy(spawn_fields(data, st, entityLocal, junk)), TRUE)
     ELSE << >>

\* message_send(transport, client, id, NULL), client build: the fields are
\* the mouse position
client_message_send(transport, id, mousePosition) ==
  LET data == binn_list_add_uint8(binn_list, id)
  IN IF id = NET_MESSAGE_SPAWN
       THEN enet_packet_create(transport,
              add_redundancy(binn_list_add_float(binn_list_add_float(data, mousePosition.x), mousePosition.y)),
              TRUE)
     ELSE << >>

\* uint8_t id = binn_list_uint8(data, 1): what message_receive returns
message_id(data) == binn_list_uint8(data, 1)

\* message_receive of the server with the Destroy branch of the client
\* build: the variant the sole-origin property is run against to show that
\* it depends on the server ignoring what is no Spawn request
server_message_receive_obeying(st, data, rnd) ==
  IF message_id(data) = NET_MESSAGE_SPAWN
    THEN server_entity_spawn(st, Vec(binn_list_float(data, 2), binn_list_float(data, 3)),
                             NET_MAX_ENTITY_SPAWN, rnd)
  ELSE IF message_id(data) = NET_MESSAGE_DESTROY
    THEN server_entity_destroy(st, binn_list_uint32(data, 2))
  ELSE st

\* message_receive(packet), server build
server_message_receive(st, data, rnd) ==
  IF message_id(data) = NET_MESSAGE_SPAWN
    THEN server_entity_spawn(st, Vec(binn_list_float(data, 2), binn_list_float(data, 3)),
                             NET_MAX_ENTITY_SPAWN, rnd)
    ELSE st

\* message_receive of the client with a last branch that takes every other
\* kind for a Destroy: the variant the unknown-kind property is run against
\* to show that it depends on the chain of tests ending without an else
client_message_receive_default(st, data) ==
  IF message_id(data) = NET_MESSAGE_SPAWN
    THEN client_entity_spawn(st, binn_list_uint32(data, 2),
           Vec(binn_list_float(data, 3), binn_list_float(data, 4)),
           Vec(binn_list_float(data, 5), binn_list_float(data, 6)),
           [r |-> binn_list_uint8(data, 7), g |-> binn_list_uint8(data, 8),
            b |-> binn_list_uint8(data, 9), a |-> 255])
  ELSE IF message_id(data) = NET_MESSAGE_MOVE
    THEN client_entity_update(st, binn_list_uint32(data, 2),
           Vec(binn_list_float(data, 3), binn_list_float(data, 4)),
           Vec(binn_list_float(data, 5), binn_list_float(data, 6)))
  ELSE client_entity_destroy(st, binn_list_uint32(data, 2))

\* message_receive(packet), client build
client_message_receive(st, data) ==
  IF message_id(data) = NET_MESSAGE_SPAWN
    THEN client_entity_spawn(st, binn_list_uint32(data, 2),
           Vec(binn_list_float(data, 3), binn_list_float(data, 4)),
           Vec(binn_list_float(data, 5), binn_list_float(data, 6)),
           [r |-> binn_list_uint8(data, 7), g |-> binn_list_uint8(data, 8),
            b |-> binn_list_uint8(data, 9), a |-> 255])
  ELSE IF message_id(data) = NET_MESSAGE_MOVE
    THEN client_entity_update(st, binn_list_uint32(data, 2),
           Vec(binn_list_float(data, 3), binn_list_float(data, 4)),
           Vec(binn_list_float(data, 5), binn_list_float(data, 6)))
  ELSE IF message_id(data) = NET_MESSAGE_DESTROY
    THEN client_entity_destroy(st, binn_list_uint32(data, 2))
  ELSE st

(***************************************************************************)
(* Bounds of the model and the inputs the steps draw from                  *)
(***************************************************************************)
\* the client programs that connect to the server in the runs of one client
OneClient == { 1 }

\* the client programs of a run: those the host holds a peer for (at most
\* NET_MAX_CLIENTS in the source); a run fixes them at its start
Clients == DOMAIN peer

\* packets that may already be in flight on a channel when more are handed
\* to it: reliable packets to a client, unreliable packets to a client,
\* requests from a client
MaxInFlight == 0

\* the server's run is followed for this many frames
MaxFrames == 2

\* RayGetMousePosition()
MousePositions == { Vec(10, 20) }

\* RayGetRandomValue: the velocity and the palette index drawn for an entity
RandomDraws == { [speed |-> Vec(0, 0), color |-> 1] }

\* get_frame_time(), in ticks
FrameTimes == { 1 }

\* what a read past the end of the component arrays may find
Junk == { [position |-> ZeroVec, speed |-> ZeroVec, color |-> ZeroColor],
          [position |-> Vec(7, 9), speed |-> Vec(3, 5), color |-> [r |-> 1, g |-> 2, b |-> 3, a |-> 4]] }

\* settings.ini of the runs explored by Spec
DefaultSettings ==
  [headlessMode |-> 0, resolutionWidth |-> 100, resolutionHeight |-> 100,
   transport |-> NET_TRANSPORT_ENET, sendRate |-> 2, redundantBytes |-> 0]

\* float sendInterval = 1.0f / settings.sendRate
sendInterval == OneSecond \div settings.sendRate

(***************************************************************************)
(* Construction                                                            *)
(***************************************************************************)
\* the server after the Data section of main
ServerInit ==
  [entity |-> 0, position |-> CallocVec, speed |-> CallocVec, color |-> CallocColor,
   connected |-> 0, sendTime |-> 0, deltaTime |-> 0, pc |-> "poll", frame |-> 0]

\* a client after the Data section of main: enet_host_connect was called
ClientInit ==
  [entity |-> 0, position |-> CallocVec, speed |-> CallocVec, color |-> CallocColor,
   destination |-> CallocVec, connected |-> FALSE, status |-> "Connecting to server..."]

NoneSent == [to |-> {}, packets |-> << >>]

\* the record of a step: the operation, who ran it (0: the server), its
\* argument and the count it found; a step no property looks back at is Idle
Step(op, who, k, pre) == [op |-> op, who |-> who, k |-> k, pre |-> pre]

Idle == Step("idle", 0, 0, 0)

\* no observation window is open
ObsInit == [open |-> FALSE, elapsed |-> 0, flushes |-> 0]

Init ==
  /\ peer = [c \in OneClient |-> [client |-> "connecting", server |-> "none"]]
  /\ settings = DefaultSettings
  /\ server = ServerInit
  /\ client = [c \in Clients |-> ClientInit]
  /\ ordered = [c \in Clients |-> << >>]
  /\ unordered = [c \in Clients |-> {}]
  /\ requests = [c \in Clients |-> << >>]
  /\ sent = NoneSent
  /\ last = Step("init", 0, 0, 0)
  /\ oob = {}
  /\ obs = ObsInit

(***************************************************************************)
(* The transport                                                           *)
(***************************************************************************)
\* enetHost->connectedPeers
connectedPeers(p) == Cardinality({c \in Clients : p[c].server = "connected"})

\* the peers enet_host_broadcast sends to
Peers == {c \in Clients : peer[c].server = "connected"}

Range(f) == {f[i] : i \in DOMAIN f}

\* room for a burst of reliable packets to each of the clients in to
Room(to, packets) == packets = << >> \/ \A c \in to : Len(ordered[c]) <= MaxInFlight

\* enet_peer_send / enet_host_broadcast of reliable packets
SendReliable(to, packets) ==
  /\ Room(to, packets)
  /\ ordered' = [c \in Clients |-> IF c \in to THEN ordered[c] \o packets ELSE ordered[c]]
  /\ sent' = [to |-> IF packets = << >> THEN {} ELSE to, packets |-> packets]

\* the indices at or past the end of the arrays among those a loop visits
OutOfBounds(ids, tag) == IF \E i \in ids : i \notin Slots THEN {tag} ELSE {}

\* ids from..to of a loop "for (i = from; i <= to; i++)" on uint32_t
LoopIds(from, to) == IF from <= to THEN from .. to ELSE {}

\* for (i = 0; i <= entity; i++) message_send(..., NET_MESSAGE_SPAWN, &i)
RECURSIVE snapshot_loop(_, _, _)
snapshot_loop(st, i, junk) ==
  IF ~(i <= st.entity) THEN << >>
  ELSE server_message_send(st, settings.transport, NET_MESSAGE_SPAWN, i, junk)
         \o snapshot_loop(st, U32(i + 1), junk)

\* for (i = entity - NET_MAX_ENTITY_SPAWN; i <= entity; i++)
\*   message_send_to_all(..., NET_MESSAGE_SPAWN, &i)
RECURSIVE spawn_broadcast_loop(_, _, _)
spawn_broadcast_loop(st, i, junk) ==
  IF ~(i <= st.entity) THEN << >>
  ELSE message_send_to_all(st, settings.transport, NET_MESSAGE_SPAWN, i, junk)
         \o spawn_broadcast_loop(st, U32(i + 1), junk)

\* for (i = 0; i < entity; i++) message_send_to_all(..., NET_MESSAGE_MOVE, &i)
RECURSIVE move_broadcast_loop(_, _, _)
move_broadcast_loop(st, i, junk) ==
  IF ~(i < st.entity) THEN << >>
  ELSE message_send_to_all(st, settings.transport, NET_MESSAGE_MOVE, i, junk)
         \o move_broadcast_loop(st, U32(i + 1), junk)

\* the slots a batch of quantity entities may fill
NewSlots(st, quantity) == {i \in Slots : st.entity <= i /\ i < st.entity + quantity}

(***************************************************************************)
(* The server's frame: the transport poll loop (pc = "poll"), then the     *)
(* Timer, Spawn, Move and Destroy sections of main, in this order          *)
(***************************************************************************)
\* case ENET_EVENT_TYPE_CONNECT, server
ServerConnect(c) ==
  /\ server.pc = "poll"
  /\ peer[c].server = "none"
  /\ peer[c].client # "connecting"
  /\ \E junk \in Junk :
       LET peer1 == [peer EXCEPT ![c].server = "connected"]
           st == [server EXCEPT !.connected = connectedPeers(peer1)]
           packets == IF ENTITIES_EXIST(st) THEN snapshot_loop(st, 0, junk) ELSE << >>
       IN /\ peer' = peer1
          /\ server' = st
          /\ SendReliable({c}, packets)
          /\ oob' = (IF packets = << >> THEN {} ELSE OutOfBounds(LoopIds(0, st.entity), "server read"))
          /\ last' = Step("connect", 0, c, server.entity)
  /\ UNCHANGED << settings, client, unordered, requests, obs >>

\* case ENET_EVENT_TYPE_DISCONNECT / DISCONNECT_TIMEOUT, server
ServerDisconnect(c) ==
  /\ server.pc = "poll"
  /\ peer[c].server = "connected"
  /\ peer' = [peer EXCEPT ![c].server = "disconnected"]
  /\ server' = [server EXCEPT !.connected = connectedPeers(peer')]
  /\ sent' = NoneSent
  /\ last' = Idle
  /\ oob' = {}
  /\ UNCHANGED << settings, client, ordered, unordered, requests, obs >>

\* case ENET_EVENT_TYPE_RECEIVE, server: message_receive, then the
\* broadcast of the batch when the message was a Spawn
ServerReceive(c) ==
  /\ server.pc = "poll"
  /\ peer[c].server = "connected"
  /\ requests[c] # << >>
  /\ \E rnd \in [NewSlots(server, NET_MAX_ENTITY_SPAWN) -> RandomDraws], junk \in Junk :
       LET data == Head(requests[c]).data
           id == message_id(data)
           st == server_message_receive(server, data, rnd)
           from == U32(st.entity - NET_MAX_ENTITY_SPAWN)
           packets == IF id = NET_MESSAGE_SPAWN THEN spawn_broadcast_loop(st, from, junk) ELSE << >>
       IN /\ server' = st
          /\ SendReliable(Peers, packets)
          /\ oob' = (IF id = NET_MESSAGE_SPAWN
                               THEN OutOfBounds(LoopIds(from, st.entity), "server read") ELSE {})
          /\ last' = Step("receive", 0, id, server.entity)
  /\ requests' = [requests EXCEPT ![c] = Tail(@)]
  /\ UNCHANGED << settings, client, peer, unordered, obs >>

\* the poll loop ends; Timer: sendTime += deltaTime.  The run is followed
\* for frames frames.
ServerTimerWithin(deltaTime, frames) ==
  /\ server.pc = "poll"
  /\ server.frame < frames
  /\ server' = [server EXCEPT !.sendTime = @ + deltaTime, !.deltaTime = deltaTime, !.pc = "spawn",
                              !.frame = @ + 1]
  /\ sent' = NoneSent
  /\ last' = Idle
  /\ obs' = IF obs.open THEN [obs EXCEPT !.elapsed = @ + deltaTime] ELSE obs
  /\ oob' = {}
  /\ UNCHANGED << settings, client, peer, ordered, unordered, requests >>

ServerTimer(deltaTime) == ServerTimerWithin(deltaTime, MaxFrames)

\* Spawn, server, with the mouse button down or space pressed
ServerSpawn(mousePosition) ==
  /\ server.pc = "spawn"
  /\ settings.headlessMode = 0
  /\ \E rnd \in [NewSlots(server, NET_MAX_ENTITY_SPAWN) -> RandomDraws], junk \in Junk :
       LET st == server_entity_spawn(server, mousePosition, NET_MAX_ENTITY_SPAWN, rnd)
           from == U32(st.entity - NET_MAX_ENTITY_SPAWN)
           packets == IF st.connected > 0 THEN spawn_broadcast_loop(st, from, junk) ELSE << >>
       IN /\ server' = [st EXCEPT !.pc = "move"]
          /\ SendReliable(Peers, packets)
          /\ oob' = (IF st.connected > 0
                               THEN OutOfBounds(LoopIds(from, st.entity), "server read") ELSE {})
          /\ last' = Step("spawn", 0, NET_MAX_ENTITY_SPAWN, server.entity)
  /\ UNCHANGED << settings, client, peer, unordered, requests, obs >>

\* Spawn, server, without input (or headless)
ServerNoSpawn ==
  /\ server.pc = "spawn"
  /\ server' = [server EXCEPT !.pc = "move"]
  /\ sent' = NoneSent
  /\ last' = Idle
  /\ oob' = {}
  /\ UNCHANGED << settings, client, peer, ordered, unordered, requests, obs >>

\* the test of the flush without the send timer: the variant the flush
\* property is run against to show that it depends on the accumulator
server_move_flushes_untimed(st) == ENTITIES_EXIST(st) /\ st.connected > 0

\* the Move section of the server: what it makes of the server, and
\* whether it flushes
server_move_flushes(st) == ENTITIES_EXIST(st) /\ st.connected > 0 /\ st.sendTime >= sendInterval

server_move_section(st) ==
  LET moved == IF ENTITIES_EXIST(st)
                 THEN server_entity_move(st, NET_MAX_ENTITY_SPEED, st.deltaTime) ELSE st
  IN IF server_move_flushes(st) THEN [moved EXCEPT !.sendTime = @ - sendInterval] ELSE moved

\* the unreliable packets of a flush that reach client c: at most one
\* survives, and only while the channel has room
Survivors(c, packets) ==
  IF c \in Peers
    THEN {S \in SUBSET Range(packets) :
            Cardinality(S) <= 1 /\ (S = {} \/ Cardinality(unordered[c]) <= MaxInFlight)}
    ELSE { {} }

\* Move, server
ServerMove ==
  /\ server.pc = "move"
  /\ LET st == server_move_section(server)
         flush == server_move_flushes(server)
         packets == IF flush THEN move_broadcast_loop(st, 0, CHOOSE j \in Junk : TRUE) ELSE << >>
     IN /\ server' = [st EXCEPT !.pc = "destroy"]
        /\ \E keep \in [Clients -> SUBSET Range(packets)] :
             /\ \A c \in Clients : keep[c] \in Survivors(c, packets)
             /\ unordered' = [c \in Clients |-> unordered[c] \cup keep[c]]
        /\ sent' = [to |-> IF packets = << >> THEN {} ELSE Peers, packets |-> packets]
        /\ last' = IF flush THEN Step("flush", 0, Len(packets), server.entity) ELSE Idle
        /\ obs' = IF obs.open /\ flush THEN [obs EXCEPT !.flushes = @ + 1] ELSE obs
  /\ oob' = {}
  /\ UNCHANGED << settings, client, peer, ordered, requests >>

\* Destroy of the server without the test of ENTITIES_EXIST: the variant
\* the destroy property is run against to show that it depends on the test
ServerDestroy_untested ==
  /\ server.pc = "destroy"
  /\ settings.headlessMode = 0
  /\ LET entities == U32(server.entity - NET_MAX_ENTITY_SPAWN)
         st == server_entity_destroy(server, entities)
         packets == IF st.connected > 0
                      THEN message_send_to_all(st, settings.transport, NET_MESSAGE_DESTROY, entities,
                                               CHOOSE j \in Junk : TRUE)
                      ELSE << >>
     IN /\ server' = [st EXCEPT !.pc = "poll"]
        /\ SendReliable(Peers, packets)
        /\ oob' = OutOfBounds({entities}, "server write")
        /\ last' = Step("destroy", 0, entities, server.entity)
  /\ UNCHANGED << settings, client, peer, unordered, requests, obs >>

\* Destroy, server, with the right mouse button down or backspace pressed
ServerDestroy ==
  /\ server.pc = "destroy"
  /\ settings.headlessMode = 0
  /\ ENTITIES_EXIST(server)
  /\ LET entities == U32(server.entity - NET_MAX_ENTITY_SPAWN)
         st == server_entity_destroy(server, entities)
         packets == IF st.connected > 0
                      THEN message_send_to_all(st, settings.transport, NET_MESSAGE_DESTROY, entities,
                                               CHOOSE j \in Junk : TRUE)
                      ELSE << >>
     IN /\ server' = [st EXCEPT !.pc = "poll"]
        /\ SendReliable(Peers, packets)
        /\ oob' = OutOfBounds({entities}, "server write")
        /\ last' = Step("destroy", 0, entities, server.entity)
  /\ UNCHANGED << settings, client, peer, unordered, requests, obs >>

\* Destroy, server, without input or without entities
ServerNoDestroy ==
  /\ server.pc = "destroy"
  /\ server' = [server EXCEPT !.pc = "poll"]
  /\ sent' = NoneSent
  /\ last' = Idle
  /\ oob' = {}
  /\ UNCHANGED << settings, client, peer, ordered, unordered, requests, obs >>

(***************************************************************************)
(* The client's frame: the events of the transport poll loop, then the     *)
(* Spawn and Move sections of main (one step: no other program sees the    *)
(* client between the two)                                                 *)
(***************************************************************************)
\* case ENET_EVENT_TYPE_CONNECT, client
ClientConnect(c) ==
  /\ peer[c].client = "connecting"
  /\ peer' = [peer EXCEPT ![c].client = "connected"]
  /\ client' = [client EXCEPT ![c].connected = TRUE, ![c].status = "Connected to server"]
  /\ sent' = NoneSent
  /\ last' = Step("connect", c, 0, client[c].entity)
  /\ oob' = {}
  /\ UNCHANGED << settings, server, ordered, unordered, requests, obs >>

\* case ENET_EVENT_TYPE_DISCONNECT / DISCONNECT_TIMEOUT, client
client_disconnect(st) ==
  [client_entity_flush(st) EXCEPT !.connected = FALSE, !.status = "Disconnected from server"]

ClientDisconnect(c) ==
  /\ peer[c].client \in {"connecting", "connected"}
  /\ peer' = [peer EXCEPT ![c].client = "disconnected"]
  /\ client' = [client EXCEPT ![c] = client_disconnect(@)]
  /\ sent' = NoneSent
  /\ last' = Step("disconnect", c, 0, client[c].entity)
  /\ oob' = {}
  /\ UNCHANGED << settings, server, ordered, unordered, requests, obs >>

\* the index a message makes the client write at (none for other kinds)
WrittenIds(data) ==
  IF message_id(data) \in {NET_MESSAGE_SPAWN, NET_MESSAGE_MOVE, NET_MESSAGE_DESTROY}
    THEN {binn_list_uint32(data, 2)} ELSE {}

\* case ENET_EVENT_TYPE_RECEIVE, client: the next reliable packet
ClientReceive(c) ==
  /\ peer[c].client = "connected"
  /\ ordered[c] # << >>
  /\ LET data == Head(ordered[c]).data
     IN /\ client' = [client EXCEPT ![c] = client_message_receive(@, data)]
        /\ oob' = OutOfBounds(WrittenIds(data), "client write")
        /\ last' = Step("receive", c, message_id(data), client[c].entity)
  /\ ordered' = [ordered EXCEPT ![c] = Tail(@)]
  /\ sent' = NoneSent
  /\ UNCHANGED << settings, server, peer, unordered, requests, obs >>

\* case ENET_EVENT_TYPE_RECEIVE, client: an unreliable packet, in any order
ClientReceiveMove(c) ==
  /\ peer[c].client = "connected"
  /\ \E packet \in unordered[c] :
       /\ client' = [client EXCEPT ![c] = client_message_receive(@, packet.data)]
       /\ oob' = OutOfBounds(WrittenIds(packet.data), "client write")
       /\ last' = Step("receive", c, message_id(packet.data), client[c].entity)
       /\ unordered' = [unordered EXCEPT ![c] = @ \ {packet}]
  /\ sent' = NoneSent
  /\ UNCHANGED << settings, server, peer, ordered, requests, obs >>

\* the Move section of the client: every entity below the count whose
\* destination is not (0, 0) moves toward it
client_move_section(st, deltaTime) ==
  IF ENTITIES_EXIST(st)
    THEN [st EXCEPT !.position =
           [i \in Slots |->
              IF i < st.entity /\ ~(st.destination[i].x = 0 /\ st.destination[i].y = 0)
                THEN client_entity_move(st.position[i], st.destination[i],
                       sqrtf(st.speed[i].x * st.speed[i].x + st.speed[i].y * st.speed[i].y),
                       NET_MAX_ENTITY_SPEED, deltaTime)
                ELSE st.position[i]]]
    ELSE st

\* the Spawn section of the client without the test of connected: the
\* variant the terminal session loss is run against to show that it
\* depends on the test
client_spawn_section_untested(st, mousePosition) ==
  client_message_send(settings.transport, NET_MESSAGE_SPAWN, mousePosition)

\* the Spawn section of the client with the mouse button down or space
\* pressed: the packets it sends, one request while connected
client_spawn_section(st, mousePosition) ==
  IF st.connected
    THEN client_message_send(settings.transport, NET_MESSAGE_SPAWN, mousePosition)
    ELSE << >>

\* the rest of a client frame with the spawn input: Spawn, then Move
ClientSpawn(c, mousePosition, deltaTime) ==
  /\ LET packets == client_spawn_section(client[c], mousePosition)
     IN /\ packets = << >> \/ Len(requests[c]) <= MaxInFlight
        /\ requests' = [requests EXCEPT ![c] = @ \o packets]
        /\ sent' = [to |-> IF packets = << >> THEN {} ELSE {0}, packets |-> packets]
  /\ client' = [client EXCEPT ![c] = client_move_section(@, deltaTime)]
  /\ last' = Step("spawn", c, deltaTime, client[c].entity)
  /\ oob' = {}
  /\ UNCHANGED << settings, server, peer, ordered, unordered, obs >>

\* the rest of a client frame without input: Move
ClientMove(c, deltaTime) ==
  /\ client' = [client EXCEPT ![c] = client_move_section(@, deltaTime)]
  /\ sent' = NoneSent
  /\ last' = Idle
  /\ oob' = {}
  /\ UNCHANGED << settings, server, peer, ordered, unordered, requests, obs >>

(***************************************************************************)
(* The system: one server and the clients, each running its frames         *)
(***************************************************************************)
Next ==
  \/ \E c \in Clients : ServerConnect(c)
  \/ \E c \in Clients : ServerDisconnect(c)
  \/ \E c \in Clients : ServerReceive(c)
  \/ \E dt \in FrameTimes : ServerTimer(dt)
  \/ \E m \in MousePositions : ServerSpawn(m)
  \/ ServerNoSpawn
  \/ ServerMove
  \/ ServerDestroy
  \/ ServerNoDestroy
  \/ \E c \in Clients : ClientConnect(c)
  \/ \E c \in Clients : ClientDisconnect(c)
  \/ \E c \in Clients : ClientReceive(c)
  \/ \E c \in Clients : ClientReceiveMove(c)
  \/ \E c \in Clients, m \in MousePositions, dt \in FrameTimes : ClientSpawn(c, m, dt)
  \/ \E c \in Clients, dt \in FrameTimes : ClientMove(c, dt)

Spec == Init /\ [][Next]_vars

(***************************************************************************)
(* Properties of the running system (Spec)                                 *)
(***************************************************************************)
\* the entity ids carried by the packets the last step handed to the transport
SentIds == {binn_list_uint32(sent.packets[i].data, 2) : i \in DOMAIN sent.packets}

\* every packet of the last step is a reliable Spawn record
SentReliableSpawns ==
  \A i \in DOMAIN sent.packets :
    sent.packets[i].reliable /\ message_id(sent.packets[i].data) = NET_MESSAGE_SPAWN

\* the last step was a batch spawned by the server: by local input, or by
\* a client's Spawn request
ServerSpawnedBatch ==
  \/ last.op = "spawn" /\ last.who = 0
  \/ last.op = "receive" /\ last.who = 0 /\ last.k = NET_MESSAGE_SPAWN

\* C2: in every reachable state the count of the server and the count of
\* every client lie in 0 .. capacity, whatever spawn triggers, spawn
\* requests, destroy triggers, messages and disconnects came before.
C2_CountInRange ==
  /\ server.entity \in 0 .. NET_MAX_ENTITIES
  /\ \A c \in Clients : client[c].entity \in 0 .. NET_MAX_ENTITIES

\* C2 witness: the server has just been asked for a batch with the store
\* full, and a client that followed it holds the full count too
C2_Witness ==
  /\ ServerSpawnedBatch
  /\ last.pre = NET_MAX_ENTITIES
  /\ server.entity = NET_MAX_ENTITIES
  /\ \E c \in Clients : client[c].entity = NET_MAX_ENTITIES

\* C3: when a peer connects while entities exist the server sends, to that
\* peer only, exactly count reliable Spawn messages, ids 0 .. count-1; when
\* no entities exist it sends nothing.
C3_LateJoinSnapshot ==
  (last.op = "connect" /\ last.who = 0) =>
     IF ENTITIES_EXIST(server)
       THEN /\ sent.to = {last.k}
            /\ SentReliableSpawns
            /\ Len(sent.packets) = server.entity
            /\ SentIds = 0 .. (server.entity - 1)
       ELSE sent.packets = << >>

\* C4: a batch spawned by the server while a peer is connected is followed
\* by exactly one reliable Spawn broadcast per entity the batch created, ids
\* old count .. new count - 1 (none when it created nothing); with no peer
\* connected the count is raised and nothing is broadcast.
C4_SpawnBroadcast ==
  ServerSpawnedBatch =>
     IF server.connected > 0
       THEN /\ sent.to = (IF sent.packets = << >> THEN {} ELSE Peers)
            /\ SentReliableSpawns
            /\ Len(sent.packets) = server.entity - last.pre
            /\ SentIds = last.pre .. (server.entity - 1)
       ELSE /\ sent.packets = << >>
            /\ server.entity = Min(last.pre + NET_MAX_ENTITY_SPAWN, NET_MAX_ENTITIES)

\* C5: every Spawn message a client applies turns exactly one more index
\* into an active one: the client's count grows by one, so that the
\* messages of a batch of Q entities take it from C to C + Q.
C5_ClientSpawnCount ==
  \A c \in Clients :
    (last.op = "receive" /\ last.who = c /\ last.k = NET_MESSAGE_SPAWN) =>
       client[c].entity = last.pre + 1

\* C7: after a client has handled the Disconnected event its count is 0 and
\* every slot of position, velocity, color and destination is zero.
C7_ResetOnDisconnect ==
  \A c \in Clients :
    (last.op = "disconnect" /\ last.who = c) =>
       /\ client[c].entity = 0
       /\ client[c].position = CallocVec
       /\ client[c].speed = CallocVec
       /\ client[c].color = CallocColor
       /\ client[c].destination = CallocVec
(***************************************************************************)
(* The entity store on its own (SpecStore): the systems of one build are   *)
(* called in any order, with any arguments of their types.  A build has    *)
(* one role, so a run works on the server's store or on a client's.        *)
(***************************************************************************)
\* the largest ordinary batch quantity tried
MaxQuantity == 3

\* uint32_t quantity: the ordinary ones, and the largest value of the type
Quantities == (0 .. MaxQuantity) \cup {UINT32_MAX}

\* the record of a call: as Step, with the store the call found
StoreStep(op, who, k, st) == [op |-> op, who |-> who, k |-> k, pre |-> st.entity, before |-> st]

ServerStoreSpawn(positionComponent, quantity) ==
  /\ client = [c \in Clients |-> ClientInit]
  /\ \E rnd \in [NewSlots(server, quantity) -> RandomDraws] :
       server' = server_entity_spawn(server, positionComponent, quantity, rnd)
  /\ last' = StoreStep("spawn", 0, quantity, server)
  /\ oob' = {}
  /\ UNCHANGED << settings, client, peer, ordered, unordered, requests, sent, obs >>

ServerStoreDestroy(entityLocal) ==
  /\ client = [c \in Clients |-> ClientInit]
  /\ entityLocal <= server.entity
  /\ server' = server_entity_destroy(server, entityLocal)
  /\ last' = StoreStep("destroy", 0, entityLocal, server)
  /\ oob' = OutOfBounds({entityLocal}, "server write")
  /\ UNCHANGED << settings, client, peer, ordered, unordered, requests, sent, obs >>

ClientStoreSpawn(c, entityRemote, positionComponent, draw) ==
  /\ server = ServerInit
  /\ client' = [client EXCEPT ![c] = client_entity_spawn(@, entityRemote, positionComponent,
                                                          draw.speed, colors[draw.color + 1])]
  /\ last' = StoreStep("spawn", c, entityRemote, client[c])
  /\ oob' = OutOfBounds({entityRemote}, "client write")
  /\ UNCHANGED << settings, server, peer, ordered, unordered, requests, sent, obs >>

ClientStoreDestroy(c, entityRemote) ==
  /\ server = ServerInit
  /\ entityRemote <= client[c].entity
  /\ client' = [client EXCEPT ![c] = client_entity_destroy(@, entityRemote)]
  /\ last' = StoreStep("destroy", c, entityRemote, client[c])
  /\ oob' = OutOfBounds({entityRemote}, "client write")
  /\ UNCHANGED << settings, server, peer, ordered, unordered, requests, sent, obs >>

ClientStoreFlush(c) ==
  /\ server = ServerInit
  /\ client' = [client EXCEPT ![c] = client_entity_flush(@)]
  /\ last' = StoreStep("flush", c, 0, client[c])
  /\ oob' = {}
  /\ UNCHANGED << settings, server, peer, ordered, unordered, requests, sent, obs >>

NextStore ==
  \/ \E m \in MousePositions, q \in Quantities : ServerStoreSpawn(m, q)
  \/ \E k \in 0 .. NET_MAX_ENTITIES : ServerStoreDestroy(k)
  \/ \E c \in Clients, k \in 0 .. NET_MAX_ENTITIES, m \in MousePositions, d \in RandomDraws :
       ClientStoreSpawn(c, k, m, d)
  \/ \E c \in Clients, k \in 0 .. NET_MAX_ENTITIES : ClientStoreDestroy(c, k)
  \/ \E c \in Clients : ClientStoreFlush(c)

SpecStore == Init /\ [][NextStore]_vars

\* the store an entity_destroy call of SpecStore worked on, after the call
Truncated == IF last.who = 0 THEN server ELSE client[last.who]

\* what entity_destroy(k) leaves of the store it found
TruncatedAt(k) ==
  /\ Truncated.entity = k
  /\ k \in Slots /\ Truncated.color[k].a = 0
  /\ \A i \in Slots \ {k} : Truncated.color[i] = last.before.color[i]
  /\ Truncated.position = last.before.position
  /\ Truncated.speed = last.before.speed
  /\ ENTITIES_EXIST(Truncated) = (k # 0 /\ last.before.color[0].a # 0)

\* C1: for every count C in 0 .. capacity and every batch quantity Q, the
\* server's entity_spawn leaves the count at min(C + Q, capacity).
C1_SpawnCount ==
  (last.op = "spawn" /\ last.who = 0) =>
     server.entity = Min(last.pre + last.k, NET_MAX_ENTITIES)

\* C6: for every k <= count that is an index of the arrays (k < capacity),
\* after entity_destroy(k), on the server or on a client, count = k, the
\* color alpha at index k is 0, no other slot's color and no position or
\* velocity has changed, and the existence probe is true exactly when slot
\* 0's alpha is nonzero: when k is not 0 and slot 0 was alive before.
C6_Truncation ==
  (last.op = "destroy" /\ last.k \in Slots) => TruncatedAt(last.k)

\* C6 witness: a truncation after which the count is positive and the
\* existence probe is false
C6_Witness ==
  /\ last.op = "destroy"
  /\ last.k \in Slots
  /\ last.k < last.pre
  /\ Truncated.entity > 0
  /\ ~ENTITIES_EXIST(Truncated)

\* C6 as stated, for every k <= count: the count may equal the capacity,
\* and k = capacity is no index of the arrays
C6_TruncationAnyK ==
  last.op = "destroy" => TruncatedAt(last.k)

(***************************************************************************)
(* The send timer (SpecTimer): a server that holds one batch runs its      *)
(* frames with any frame times, a peer connects at any moment, and an      *)
(* observation window is opened at any frame boundary after that.  obs     *)
(* holds the time elapsed and the flushes made since the window opened.    *)
(***************************************************************************)
\* the frames a run of SpecTimer is followed for
MaxTimerFrames == 5

\* get_frame_time(), in ticks: frames faster than, as fast as and slower
\* than the send interval
TimerFrameTimes == { 1, 2, 4 }

\* the server after one locally triggered batch, before any peer connected
InitTimer ==
  /\ peer = [c \in OneClient |-> [client |-> "connecting", server |-> "none"]]
  /\ \E m \in MousePositions, rnd \in [NewSlots(ServerInit, NET_MAX_ENTITY_SPAWN) -> RandomDraws] :
       server = server_entity_spawn(ServerInit, m, NET_MAX_ENTITY_SPAWN, rnd)
  /\ settings = DefaultSettings
  /\ client = [c \in Clients |-> ClientInit]
  /\ ordered = [c \in Clients |-> << >>]
  /\ unordered = [c \in Clients |-> {}]
  /\ requests = [c \in Clients |-> << >>]
  /\ sent = NoneSent
  /\ last = Step("init", 0, 0, 0)
  /\ oob = {}
  /\ obs = ObsInit

\* the observation starts, between two frames, with entities existing and
\* a peer connected
OpenWindow ==
  /\ server.pc = "poll"
  /\ ~obs.open
  /\ ENTITIES_EXIST(server)
  /\ server.connected > 0
  /\ obs' = [open |-> TRUE, elapsed |-> 0, flushes |-> 0]
  /\ UNCHANGED << settings, server, client, peer, ordered, unordered, requests, sent, last, oob >>

NextTimer ==
  \/ \E c \in Clients : ClientConnect(c)
  \/ \E c \in Clients : ServerConnect(c)
  \/ OpenWindow
  \/ \E dt \in TimerFrameTimes : ServerTimerWithin(dt, MaxTimerFrames)
  \/ ServerNoSpawn
  \/ ServerMove
  \/ ServerNoDestroy

SpecTimer == InitTimer /\ [][NextTimer]_vars

\* floor(T * R) for the T seconds of the window and the send rate R
ExpectedFlushes == (obs.elapsed * settings.sendRate) \div OneSecond

\* C8: over an observation window of T seconds with entities existing and
\* a peer connected, the flushes of the Move section number floor(T * R)
\* within one, for every sequence of frame times and whatever came before
\* the window.
C8_SendRateDecoupling ==
  (obs.open /\ server.pc = "poll") =>
     /\ obs.flushes <= ExpectedFlushes + 1
     /\ ExpectedFlushes <= obs.flushes + 1

(***************************************************************************)
(* Serialization on its own (SpecCodec): one record is built from a store  *)
(* by message_send_to_all or message_send and read by message_receive of   *)
(* the other build.                                                        *)
(***************************************************************************)
\* RayGetRandomValue, with velocities of both signs
CodecDraws == { [speed |-> Vec(-3, 5), color |-> 1], [speed |-> Vec(2, -1), color |-> 4] }

\* RayGetMousePosition()
CodecMousePositions == { Vec(10, 20), Vec(640, 3) }

\* settings.redundantBytes: without and with the trailing blob
RedundantBytes == { 0, 3 }

\* the record of a step of SpecCodec: the kind and the entity id (or the
\* mouse position) that were encoded, the kind that was decoded, and the
\* server's count before the step
CodecStep(op, who, k, pre, id, at) ==
  [op |-> op, who |-> who, k |-> k, pre |-> pre, id |-> id, at |-> at]

\* a server that holds one batch or a full store, and a fresh client
InitCodec ==
  /\ peer = [c \in OneClient |-> [client |-> "connected", server |-> "connected"]]
  /\ \E b \in RedundantBytes : settings = [DefaultSettings EXCEPT !.redundantBytes = b]
  /\ \E m \in CodecMousePositions, q \in {NET_MAX_ENTITY_SPAWN, NET_MAX_ENTITIES} :
       \E rnd \in [NewSlots(ServerInit, q) -> CodecDraws] :
         server = server_entity_spawn(ServerInit, m, q, rnd)
  /\ client = [c \in Clients |-> ClientInit]
  /\ ordered = [c \in Clients |-> << >>]
  /\ unordered = [c \in Clients |-> {}]
  /\ requests = [c \in Clients |-> << >>]
  /\ sent = NoneSent
  /\ last = CodecStep("init", 0, 0, 0, 0, 0)
  /\ oob = {}
  /\ obs = ObsInit

\* message_send_to_all(transport, id, &entityLocal)
CodecSendToAll(id, entityLocal) ==
  /\ last.op = "init"
  /\ LET packets == message_send_to_all(server, settings.transport, id, entityLocal,
                                         CHOOSE j \in Junk : TRUE)
     IN /\ ordered' = [c \in Clients |-> packets]
        /\ sent' = [to |-> Clients, packets |-> packets]
  /\ last' = CodecStep("send", 0, id, entityLocal, 0, server.entity)
  /\ UNCHANGED << settings, server, client, peer, unordered, requests, oob, obs >>

\* message_send(transport, peer, NET_MESSAGE_SPAWN, &entityLocal), server
CodecSend(c, entityLocal) ==
  /\ last.op = "init"
  /\ LET packets == server_message_send(server, settings.transport, NET_MESSAGE_SPAWN, entityLocal,
                                         CHOOSE j \in Junk : TRUE)
     IN /\ ordered' = [ordered EXCEPT ![c] = packets]
        /\ sent' = [to |-> {c}, packets |-> packets]
  /\ last' = CodecStep("send", 0, NET_MESSAGE_SPAWN, entityLocal, 0, server.entity)
  /\ UNCHANGED << settings, server, client, peer, unordered, requests, oob, obs >>

\* message_send(transport, enetPeer, NET_MESSAGE_SPAWN, NULL), client
CodecRequest(c, mousePosition) ==
  /\ last.op = "init"
  /\ LET packets == client_message_send(settings.transport, NET_MESSAGE_SPAWN, mousePosition)
     IN /\ requests' = [requests EXCEPT ![c] = packets]
        /\ sent' = [to |-> {0}, packets |-> packets]
  /\ last' = CodecStep("send", c, NET_MESSAGE_SPAWN, mousePosition, 0, server.entity)
  /\ UNCHANGED << settings, server, client, peer, ordered, unordered, oob, obs >>

\* message_receive(event.packet->data), client
CodecClientReceive(c) ==
  /\ ordered[c] # << >>
  /\ client' = [client EXCEPT ![c] = client_message_receive(@, Head(ordered[c]).data)]
  /\ ordered' = [ordered EXCEPT ![c] = Tail(@)]
  /\ last' = [last EXCEPT !.op = "receive", !.who = c, !.id = message_id(Head(ordered[c]).data)]
  /\ UNCHANGED << settings, server, peer, unordered, requests, sent, oob, obs >>

\* message_receive(event.packet->data), server
CodecServerReceive(c) ==
  /\ requests[c] # << >>
  /\ \E rnd \in [NewSlots(server, NET_MAX_ENTITY_SPAWN) -> CodecDraws] :
       server' = server_message_receive(server, Head(requests[c]).data, rnd)
  /\ requests' = [requests EXCEPT ![c] = Tail(@)]
  /\ last' = [last EXCEPT !.op = "receive", !.who = 0, !.id = message_id(Head(requests[c]).data)]
  /\ UNCHANGED << settings, client, peer, ordered, unordered, sent, oob, obs >>

NextCodec ==
  \/ \E id \in {NET_MESSAGE_SPAWN, NET_MESSAGE_MOVE, NET_MESSAGE_DESTROY}, e \in Slots :
       CodecSendToAll(id, e)
  \/ \E c \in Clients, e \in Slots : CodecSend(c, e)
  \/ \E c \in Clients, m \in CodecMousePositions : CodecRequest(c, m)
  \/ \E c \in Clients : CodecClientReceive(c)
  \/ \E c \in Clients : CodecServerReceive(c)

SpecCodec == InitCodec /\ [][NextCodec]_vars

\* what a client holds after reading the record built for entity e
DecodedByClient(st, kind, e) ==
  IF kind = NET_MESSAGE_SPAWN
    THEN /\ st.entity = e
         /\ st.position[e] = server.position[e]
         /\ st.speed[e] = server.speed[e]
         /\ st.color[e].r = server.color[e].r
         /\ st.color[e].g = server.color[e].g
         /\ st.color[e].b = server.color[e].b
  ELSE IF kind = NET_MESSAGE_MOVE
    THEN /\ st.destination[e] = server.position[e]
         /\ st.speed[e] = server.speed[e]
  ELSE st.entity = e

\* C9: message_receive reading the list built by message_send or
\* message_send_to_all obtains, field for field, the values that were
\* encoded: the kind byte, the entity id, both position floats, both
\* velocity floats and the color bytes of a Spawn, Move or Destroy record,
\* the kind byte and the position of a Spawn request, with or without the
\* trailing blob.
C9_CodecRoundTrip ==
  last.op = "receive" =>
     /\ last.id = last.k
     /\ IF last.who = 0
          THEN last.at < NET_MAX_ENTITIES => server.position[last.at] = last.pre
          ELSE DecodedByClient(client[last.who], last.k, last.pre)

\* C9 witness: a Spawn record that carries the trailing blob has been read
\* by a client, for an entity with a negative velocity component
C9_Witness ==
  /\ last.op = "receive"
  /\ last.who # 0
  /\ last.k = NET_MESSAGE_SPAWN
  /\ settings.redundantBytes > 0
  /\ server.speed[last.pre].x < 0
  /\ client[last.who].speed[last.pre] = server.speed[last.pre]

(***************************************************************************)
(* Interpolation on its own (SpecMove): a client that mirrors one entity   *)
(* received a Move for it and runs its frames.  The start, the target and  *)
(* the velocity are such that every square root and quotient of            *)
(* entity_move is a whole number, so the integers of the model compute     *)
(* what the floats compute.                                                *)
(***************************************************************************)
\* position of the entity when the Move arrives
MoveStart == Vec(500, 500)

\* destination - position: along an axis and along the 3-4-5 direction,
\* nothing, and the offset that makes the destination (0, 0)
MoveOffsets == { Vec(400, 0), Vec(0, -320), Vec(240, 320), Vec(-300, -400), Vec(100, 0),
                 Vec(0, 0), Vec(-500, -500) }

\* velocity carried by the Move: lengths 0, 1, 2 and 5
MoveSpeeds == { Vec(0, 0), Vec(1, 0), Vec(0, -2), Vec(3, 4) }

\* get_frame_time(), in seconds
MoveFrameTimes == { 0, 1, 2 }

\* the client after the Spawn records of entities 0 and 1 and a Move
\* record of entity 0
InitMove ==
  /\ peer = [c \in OneClient |-> [client |-> "connected", server |-> "connected"]]
  /\ \E o \in MoveOffsets, v \in MoveSpeeds :
       client = [c \in Clients |->
         client_entity_update(
           client_entity_spawn(
             client_entity_spawn([ClientInit EXCEPT !.connected = TRUE], 0, MoveStart, v, colors[1]),
             1, MoveStart, ZeroVec, colors[2]),
           0, Vec(MoveStart.x + o.x, MoveStart.y + o.y), v)]
  /\ settings = DefaultSettings
  /\ server = ServerInit
  /\ ordered = [c \in Clients |-> << >>]
  /\ unordered = [c \in Clients |-> {}]
  /\ requests = [c \in Clients |-> << >>]
  /\ sent = NoneSent
  /\ last = Step("init", 0, 0, 0)
  /\ oob = {}
  /\ obs = ObsInit

\* float step = maxDistanceDelta * movementSpeed * deltaTime for entity i
StepDistance(st, i, deltaTime) ==
  sqrtf(st.speed[i].x * st.speed[i].x + st.speed[i].y * st.speed[i].y) * NET_MAX_ENTITY_SPEED * deltaTime

\* a frame of the client without input; the record of the step holds the
\* step distance of entity 0 and the position it had
MoveFrame(c, deltaTime) ==
  /\ client' = [client EXCEPT ![c] = client_move_section(@, deltaTime)]
  /\ last' = Step("move", c, StepDistance(client[c], 0, deltaTime), client[c].position[0])
  /\ UNCHANGED << settings, server, peer, ordered, unordered, requests, sent, oob, obs >>

NextMove == \E c \in Clients, dt \in MoveFrameTimes : MoveFrame(c, dt)

SpecMove == InitMove /\ [][NextMove]_vars

\* |a - b| squared
SquareDistance(a, b) == (a.x - b.x) * (a.x - b.x) + (a.y - b.y) * (a.y - b.y)

\* q lies on the segment from p to d
Between(p, q, d) ==
  /\ (d.x - p.x) * (d.y - q.y) = (d.y - p.y) * (d.x - q.x)
  /\ (d.x - p.x) * (d.x - q.x) + (d.y - p.y) * (d.y - q.y) >= 0
  /\ SquareDistance(q, d) <= SquareDistance(p, d)

\* entity_move was applied to entity 0 of client c by the last step
MoveApplied(c) ==
  /\ last.op = "move" /\ last.who = c
  /\ client[c].destination[0] # ZeroVec

\* what one application of entity_move with step distance s made of the
\* position P (last.pre), given the target D
Converges(c, s) ==
  LET D == client[c].destination[0]
      P == last.pre
      Q == client[c].position[0]
  IN /\ SquareDistance(P, D) > s * s => SquareDistance(Q, D) < SquareDistance(P, D)
     /\ SquareDistance(P, D) <= s * s => Q = D
     /\ Between(P, Q, D)
     /\ P = D => Q = D

\* C10: for every target D, start P and step distance s > 0, an
\* application of the client's entity_move strictly decreases |D - P|
\* while |D - P| > s and sets P = D once |D - P| <= s; the position never
\* passes beyond D and, once equal to D, stays there.  With s = 0 the
\* position stays between P and D and, if equal to D, stays there.
C10_InterpolationConvergence ==
  \A c \in Clients :
    MoveApplied(c) =>
       IF last.k > 0
         THEN Converges(c, last.k)
         ELSE LET D == client[c].destination[0]
                  Q == client[c].position[0]
              IN Between(last.pre, Q, D) /\ (last.pre = D => Q = D)

\* C10 witness: a step that moved the entity closer to a target still
\* farther away than the step, in a direction off the axes
C10_Witness ==
  \E c \in Clients :
    /\ MoveApplied(c)
    /\ last.k > 0
    /\ last.pre.x # client[c].position[0].x
    /\ last.pre.y # client[c].position[0].y
    /\ client[c].position[0] # client[c].destination[0]

\* C10 as stated, for every step distance s
C10_ConvergenceAnyStep ==
  \A c \in Clients : MoveApplied(c) => Converges(c, last.k)


(***************************************************************************)
(* Message dispatch (SpecDispatch): the events of the two poll loops and   *)
(* the client's frames.  A server that holds one batch stays in its poll   *)
(* loop; a client connects, mirrors it, asks for batches and may lose the  *)
(* connection; besides the records the two builds send each other, Move    *)
(* records and records of any other kind arrive at both from the network.  *)
(***************************************************************************)
\* the kinds message_receive knows
MessageKinds == { NET_MESSAGE_SPAWN, NET_MESSAGE_MOVE, NET_MESSAGE_DESTROY }

\* the position and the velocity the server's Move records carry: away
\* from where the batch was spawned, one frame of interpolation away
MoveTargets == { Vec(40, 60) }

MoveVelocities == { Vec(3, 4) }

\* a store whose every entity stands at positionComponent with speedComponent
SenderStore(positionComponent, speedComponent) ==
  [position |-> [i \in Slots |-> positionComponent], speed |-> [i \in Slots |-> speedComponent]]

\* the entities whose Move records are followed: the first of the store
MovedEntities == { 0 }

\* the Move records of a flush of the server for these entities, while
\* they are active
MoveRecords(st) ==
  { move_fields(binn_list_add_uint8(binn_list, NET_MESSAGE_MOVE), SenderStore(p, v), e,
                CHOOSE j \in Junk : TRUE) :
      e \in {i \in MovedEntities : i < st.entity}, p \in MoveTargets, v \in MoveVelocities }

\* records of no known kind: an empty list, a list whose first item is no
\* integer, and lists with the fields of a Move and of a Destroy under the
\* kind bytes 0 and 13
ForeignRecords ==
  { binn_list,
    binn_list_add_uint32(binn_list_add_float(binn_list, 11), 1),
    move_fields(binn_list_add_uint8(binn_list, 0), SenderStore(Vec(7, 9), Vec(3, 5)), 1,
                CHOOSE j \in Junk : TRUE),
    binn_list_add_uint32(binn_list_add_uint8(binn_list, 13), 0) }

\* the Move and Destroy records a peer may send to the server
PeerRecords(st) ==
  MoveRecords(st) \cup { binn_list_add_uint32(binn_list_add_uint8(binn_list, NET_MESSAGE_DESTROY), 0) }

\* the server after one locally triggered batch, before any peer connected
InitDispatch ==
  /\ peer = [c \in OneClient |-> [client |-> "connecting", server |-> "none"]]
  /\ \E m \in MousePositions, rnd \in [NewSlots(ServerInit, NET_MAX_ENTITY_SPAWN) -> RandomDraws] :
       server = server_entity_spawn(ServerInit, m, NET_MAX_ENTITY_SPAWN, rnd)
  /\ settings = DefaultSettings
  /\ client = [c \in Clients |-> ClientInit]
  /\ ordered = [c \in Clients |-> << >>]
  /\ unordered = [c \in Clients |-> {}]
  /\ requests = [c \in Clients |-> << >>]
  /\ sent = NoneSent
  /\ last = Step("init", 0, 0, 0)
  /\ oob = {}
  /\ obs = ObsInit

\* a Move record of the server reaches client c over the unreliable channel
DispatchMove(c, data) ==
  /\ peer[c].client = "connected"
  /\ Cardinality(unordered[c]) <= MaxInFlight
  /\ unordered' = [unordered EXCEPT ![c] = @ \cup {[data |-> data, reliable |-> FALSE]}]
  /\ sent' = NoneSent
  /\ last' = Idle
  /\ oob' = {}
  /\ UNCHANGED << settings, server, client, peer, ordered, requests, obs >>

\* a record of no known kind reaches client c
DispatchToClient(c, data) ==
  /\ peer[c].client = "connected"
  /\ Len(ordered[c]) <= MaxInFlight
  /\ ordered' = [ordered EXCEPT ![c] = Append(@, [data |-> data, reliable |-> TRUE])]
  /\ sent' = NoneSent
  /\ last' = Idle
  /\ oob' = {}
  /\ UNCHANGED << settings, server, client, peer, unordered, requests, obs >>

\* a record that is no Spawn request reaches the server from peer c
DispatchToServer(c, data) ==
  /\ peer[c].server = "connected"
  /\ Len(requests[c]) <= MaxInFlight
  /\ requests' = [requests EXCEPT ![c] = Append(@, [data |-> data, reliable |-> TRUE])]
  /\ sent' = NoneSent
  /\ last' = Idle
  /\ oob' = {}
  /\ UNCHANGED << settings, server, client, peer, ordered, unordered, obs >>

NextDispatch ==
  \/ \E c \in Clients : ServerConnect(c)
  \/ \E c \in Clients : ServerReceive(c)
  \/ \E c \in Clients : ClientConnect(c)
  \/ \E c \in Clients : ClientDisconnect(c)
  \/ \E c \in Clients : ClientReceive(c)
  \/ \E c \in Clients : ClientReceiveMove(c)
  \/ \E c \in Clients, m \in MousePositions, dt \in FrameTimes : ClientSpawn(c, m, dt)
  \/ \E c \in Clients, dt \in FrameTimes : ClientMove(c, dt)
  \/ \E c \in Clients, data \in MoveRecords(server) : DispatchMove(c, data)
  \/ \E c \in Clients, data \in ForeignRecords : DispatchToClient(c, data)
  \/ \E c \in Clients, data \in ForeignRecords \cup PeerRecords(server) : DispatchToServer(c, data)

SpecDispatch == InitDispatch /\ [][NextDispatch]_vars

\* the position and the velocity a Move record carries
MovePosition(data) == Vec(binn_list_float(data, 3), binn_list_float(data, 4))

MoveVelocity(data) == Vec(binn_list_float(data, 5), binn_list_float(data, 6))

\* client c takes packet out of the unreliable channel in this step
TakesMove(c, packet) ==
  /\ packet \in unordered[c]
  /\ unordered'[c] = unordered[c] \ {packet}
  /\ message_id(packet.data) = NET_MESSAGE_MOVE

\* C11: a client that handles Move(id, pos, vel) stores pos in
\* destination[id] and vel in velocity[id]; the message changes no position,
\* no color, not the count, and no destination or velocity of another
\* entity.
C11_MoveUpdate ==
  [][\A c \in Clients : \A packet \in unordered[c] :
       TakesMove(c, packet) =>
         LET id == binn_list_uint32(packet.data, 2)
         IN /\ id \in Slots
            /\ client'[c].destination[id] = MovePosition(packet.data)
            /\ client'[c].speed[id] = MoveVelocity(packet.data)
            /\ \A i \in Slots \ {id} :
                 /\ client'[c].destination[i] = client[c].destination[i]
                 /\ client'[c].speed[i] = client[c].speed[i]
            /\ client'[c].position = client[c].position
            /\ client'[c].color = client[c].color
            /\ client'[c].entity = client[c].entity]_vars

\* C11 witness: a client has handled a Move for an entity it mirrors, and
\* the entity still stands where it was spawned, away from its new
\* destination and with its new velocity
C11_Witness ==
  /\ last.op = "receive"
  /\ last.who \in Clients
  /\ last.k = NET_MESSAGE_MOVE
  /\ \E i \in Slots :
       /\ i < client[last.who].entity
       /\ client[last.who].color[i].a # 0
       /\ client[last.who].destination[i] \in MoveTargets
       /\ client[last.who].speed[i] \in MoveVelocities
       /\ client[last.who].position[i] \in MousePositions

(***************************************************************************)
(* Further properties of the running system (Spec)                         *)
(***************************************************************************)
\* the policy a packet follows: a known kind, reliable unless it is a Move
FollowsPolicy(packet) ==
  /\ message_id(packet.data) \in MessageKinds
  /\ packet.reliable = (message_id(packet.data) # NET_MESSAGE_MOVE)

\* every packet handed to the transport by the last step
SentPackets == Range(sent.packets)

\* every packet the transport holds for, or from, client c
HeldPackets(c) == Range(ordered[c]) \cup unordered[c] \cup Range(requests[c])

\* C12: every Spawn message (broadcast, late-join snapshot, client request)
\* and every Destroy message is handed to the transport as reliable, every
\* Move message as unreliable, and no message of another kind is ever sent.
C12_ReliabilityPolicy ==
  /\ \A packet \in SentPackets : FollowsPolicy(packet)
  /\ \A c \in Clients : \A packet \in HeldPackets(c) : FollowsPolicy(packet)

\* C12 witness: the server has just flushed its Move records, unreliable,
\* while a client still holds reliable Spawn records of the server
C12_Witness ==
  /\ last.op = "flush"
  /\ sent.packets # << >>
  /\ \A packet \in SentPackets : message_id(packet.data) = NET_MESSAGE_MOVE /\ ~packet.reliable
  /\ \E c \in Clients : \E packet \in Range(ordered[c]) :
       message_id(packet.data) = NET_MESSAGE_SPAWN /\ packet.reliable

\* client c has handled the Disconnected event
SessionLost(c) == client[c].status = "Disconnected from server" /\ ~client[c].connected

\* C14: once a client has handled the Disconnected event it stays
\* disconnected for the rest of the run: its status and its connected flag
\* do not change again, the transport is never asked for another
\* connection, and no Spawn request is sent, whatever the input.
C14_TerminalSessionLoss ==
  [][\A c \in Clients :
       SessionLost(c) =>
         /\ client'[c].status = "Disconnected from server"
         /\ ~client'[c].connected
         /\ peer'[c].client = "disconnected"
         /\ Len(requests'[c]) <= Len(requests[c])
         /\ (last'.op = "spawn" /\ last'.who = c) => sent'.packets = << >>]_vars

\* C14 witness: a client that mirrored entities and lost the connection
\* has run a frame with the spawn input, and nothing was sent
C14_Witness ==
  \E c \in Clients :
    /\ SessionLost(c)
    /\ last.op = "spawn"
    /\ last.who = c
    /\ sent.packets = << >>
    /\ peer[c].server = "connected"
    /\ server.entity > 0

\* C16: a destroy trigger while entities exist removes the youngest batch
\* the server holds: the count goes down by the size of a batch, the size
\* every effective spawn added, without falling below 0 or wrapping
\* around; with a peer connected exactly one reliable Destroy message
\* carrying the new count is broadcast, with no peer nothing is sent.
C16_ServerDestroy ==
  (last.op = "destroy" /\ last.who = 0) =>
     /\ last.pre >= NET_MAX_ENTITY_SPAWN
     /\ server.entity = last.pre - NET_MAX_ENTITY_SPAWN
     /\ IF server.connected > 0
          THEN /\ Len(sent.packets) = 1
               /\ sent.to = Peers
               /\ sent.packets[1].reliable
               /\ message_id(sent.packets[1].data) = NET_MESSAGE_DESTROY
               /\ binn_list_uint32(sent.packets[1].data, 2) = server.entity
          ELSE sent.packets = << >>

\* C16 witness: with a peer connected the server has destroyed the second
\* of two batches and broadcast the cutoff
C16_Witness ==
  /\ last.op = "destroy"
  /\ last.who = 0
  /\ last.pre = 2 * NET_MAX_ENTITY_SPAWN
  /\ server.entity = NET_MAX_ENTITY_SPAWN
  /\ server.connected > 0
  /\ sent.packets # << >>

\* the slots the server read to fill the Spawn and Move records of the
\* last step
EncodedSlots ==
  IF 0 \in sent.to THEN {}
  ELSE {binn_list_uint32(packet.data, 2) :
          packet \in {q \in SentPackets : message_id(q.data) \in {NET_MESSAGE_SPAWN, NET_MESSAGE_MOVE}}}

\* C19: in every reachable state, the store full or not, every slot the
\* server reads to integrate or to fill a Spawn or Move record and every
\* slot a client writes when it applies a record of the server is an index
\* of the arrays, and the server reads no slot at or above its count.
C19_IndexBounds ==
  /\ "server read" \notin oob
  /\ "client write" \notin oob
  /\ \A i \in EncodedSlots : i < server.entity

\* C20: in every state the server reaches through spawn triggers, Spawn
\* requests and destroy triggers, ENTITIES_EXIST() is true exactly when the
\* count is positive and the count is a multiple of the batch size; hence
\* neither the "entity - NET_MAX_ENTITY_SPAWN" of Destroy nor that of the
\* Spawn broadcasts is computed from a count below the batch size.
C20_ProbeConsistency ==
  /\ ENTITIES_EXIST(server) = (server.entity > 0)
  /\ server.entity % NET_MAX_ENTITY_SPAWN = 0
  /\ (last.op = "destroy" /\ last.who = 0) => last.pre >= NET_MAX_ENTITY_SPAWN
  /\ ServerSpawnedBatch => server.entity >= NET_MAX_ENTITY_SPAWN

\* C20 witness: the server has destroyed its only batch: the count is 0 and
\* the probe is false, though a slot of the batch still holds its color
C20_Witness ==
  /\ last.op = "destroy"
  /\ last.who = 0
  /\ last.pre = NET_MAX_ENTITY_SPAWN
  /\ server.entity = 0
  /\ ~ENTITIES_EXIST(server)
  /\ \E i \in Slots : server.color[i].a # 0

(***************************************************************************)
(* Further properties of message dispatch (SpecDispatch)                   *)
(***************************************************************************)
\* C13: handling a message whose kind byte is none of Spawn, Move and
\* Destroy leaves the whole store of the server and of every client as it
\* was (the count, every component array, the connection state and the
\* status), and sends nothing.
C13_UnknownKind ==
  [][(last'.op = "receive" /\ last'.k \notin MessageKinds) =>
       /\ server' = server
       /\ client' = client
       /\ sent'.packets = << >>]_vars

\* C13 witness: a client that mirrors entities has handled a record with
\* an unknown, nonzero kind byte
C13_Witness ==
  /\ last.op = "receive"
  /\ last.who \in Clients
  /\ last.k \notin MessageKinds
  /\ last.k # 0
  /\ client[last.who].entity > 0
  /\ ENTITIES_EXIST(client[last.who])

\* the components of a client's store that no frame of its own changes
Mirrored(st) == << st.entity, st.speed, st.color, st.destination >>

\* the last step of the pair was client c handling a Spawn, Move or Destroy
\* record, or the Disconnected event
InboundTo(c) ==
  /\ last'.who = c
  /\ \/ last'.op = "receive" /\ last'.k \in MessageKinds
     \/ last'.op = "disconnect"

\* the positions of c after the step are those its Move section computes
Interpolated(c) ==
  \E dt \in FrameTimes : client'[c].position = client_move_section(client[c], dt).position

\* C15: the server alone originates entity state.  A client frame with the
\* spawn input changes nothing in the client's store but what the
\* interpolation step of the same frame does to positions, and sends
\* exactly one reliable Spawn request carrying the input position while
\* connected, none otherwise; the count, the velocities, the colors and the
\* destinations of a client change only when it handles a Spawn, Move or
\* Destroy record or the Disconnected event, its positions only then or in
\* the interpolation step; and a Move or Destroy record the server receives
\* leaves the server's store as it was.
C15_ServerSoleOrigin ==
  [][/\ \A c \in Clients :
          /\ (last'.op = "spawn" /\ last'.who = c) =>
               /\ Mirrored(client'[c]) = Mirrored(client[c])
               /\ Interpolated(c)
               /\ IF client[c].connected
                    THEN /\ Len(sent'.packets) = 1
                         /\ sent'.to = {0}
                         /\ sent'.packets[1].reliable
                         /\ message_id(sent'.packets[1].data) = NET_MESSAGE_SPAWN
                         /\ Vec(binn_list_float(sent'.packets[1].data, 2),
                                binn_list_float(sent'.packets[1].data, 3)) \in MousePositions
                    ELSE sent'.packets = << >>
          /\ Mirrored(client'[c]) # Mirrored(client[c]) => InboundTo(c)
          /\ client'[c].position # client[c].position => InboundTo(c) \/ Interpolated(c)
     /\ (last'.op = "receive" /\ last'.who = 0 /\ last'.k \in {NET_MESSAGE_MOVE, NET_MESSAGE_DESTROY}) =>
          server' = server]_vars

\* C15 witness: the server, holding entities, has handled a Destroy record
\* sent by a peer, and holds them still
C15_Witness ==
  /\ last.op = "receive"
  /\ last.who = 0
  /\ last.k = NET_MESSAGE_DESTROY
  /\ server.entity > 0
  /\ ENTITIES_EXIST(server)

(***************************************************************************)
(* The transport poll loop (SpecPoll): the server's loop, one iteration a  *)
(* step, with a connected client whose Spawn requests arrive at any        *)
(* moment.  Of the requests that reached the host, requests holds those    *)
(* not handled yet; obs.queued counts those the transport has already      *)
(* queued as events, the ones enet_host_check_events reports, and          *)
(* obs.polled is the flag of the loop.  enet_host_service reads what has   *)
(* arrived, queues it and reports the first event.  What the server       *)
(* broadcasts stays in the channels: the client's poll loop is left out.   *)
(***************************************************************************)
\* the frames a run of SpecPoll is followed for
MaxPollFrames == 3

\* the requests that may wait at the host
MaxPending == 2

\* the server and a client after the connection was made, no entity yet
InitPoll ==
  /\ peer = [c \in OneClient |-> [client |-> "connected", server |-> "connected"]]
  /\ settings = DefaultSettings
  /\ server = [ServerInit EXCEPT !.connected = Cardinality(Clients)]
  /\ client = [c \in Clients |-> [ClientInit EXCEPT !.connected = TRUE, !.status = "Connected to server"]]
  /\ ordered = [c \in Clients |-> << >>]
  /\ unordered = [c \in Clients |-> {}]
  /\ requests = [c \in Clients |-> << >>]
  /\ sent = NoneSent
  /\ last = Step("init", 0, 0, 0)
  /\ oob = {}
  /\ obs = [open |-> FALSE, elapsed |-> 0, flushes |-> 0, polled |-> FALSE, queued |-> 0]

\* a frame of client c with the spawn input: its request reaches the host
PollClientSpawn(c, mousePosition, deltaTime) ==
  /\ Len(requests[c]) < MaxPending
  /\ LET packets == client_spawn_section(client[c], mousePosition)
     IN /\ requests' = [requests EXCEPT ![c] = @ \o packets]
        /\ sent' = [to |-> IF packets = << >> THEN {} ELSE {0}, packets |-> packets]
  /\ client' = [client EXCEPT ![c] = client_move_section(@, deltaTime)]
  /\ last' = Step("spawn", c, deltaTime, client[c].entity)
  /\ oob' = {}
  /\ UNCHANGED << settings, server, peer, ordered, unordered, obs >>

\* switch (event.type), case ENET_EVENT_TYPE_RECEIVE, for the event the
\* transport reported; after is what the loop and the transport hold then
PollHandle(c, after) ==
  /\ server.pc = "poll"
  /\ ~obs.polled
  /\ requests[c] # << >>
  /\ \E rnd \in [NewSlots(server, NET_MAX_ENTITY_SPAWN) -> RandomDraws], junk \in Junk :
       LET data == Head(requests[c]).data
           id == message_id(data)
           st == server_message_receive(server, data, rnd)
           from == U32(st.entity - NET_MAX_ENTITY_SPAWN)
           packets == IF id = NET_MESSAGE_SPAWN THEN spawn_broadcast_loop(st, from, junk) ELSE << >>
       IN /\ server' = st
          /\ ordered' = [d \in Clients |-> IF d \in Peers THEN ordered[d] \o packets ELSE ordered[d]]
          /\ sent' = [to |-> IF packets = << >> THEN {} ELSE Peers, packets |-> packets]
          /\ oob' = (IF id = NET_MESSAGE_SPAWN
                       THEN OutOfBounds(LoopIds(from, st.entity), "server read") ELSE {})
          /\ last' = Step("receive", 0, id, server.entity)
  /\ requests' = [requests EXCEPT ![c] = Tail(@)]
  /\ obs' = after
  /\ UNCHANGED << settings, client, peer, unordered >>

\* an iteration where enet_host_check_events reports a queued event
PollCheckEvents(c) ==
  /\ obs.queued > 0
  /\ PollHandle(c, [obs EXCEPT !.queued = @ - 1])

\* an iteration where enet_host_check_events reports nothing and
\* enet_host_service reports an event: polled = true
PollService(c) ==
  /\ obs.queued = 0
  /\ PollHandle(c, [obs EXCEPT !.queued = Len(requests[c]) - 1, !.polled = TRUE])

\* the loop ends, by polled or by the break after enet_host_service
\* reported nothing; Timer
PollEnd(deltaTime) ==
  /\ server.pc = "poll"
  /\ server.frame < MaxPollFrames
  /\ obs.polled \/ (obs.queued = 0 /\ \A c \in Clients : requests[c] = << >>)
  /\ server' = [server EXCEPT !.sendTime = @ + deltaTime, !.deltaTime = deltaTime, !.pc = "spawn",
                              !.frame = @ + 1]
  /\ obs' = [obs EXCEPT !.polled = FALSE]
  /\ sent' = NoneSent
  /\ last' = Idle
  /\ oob' = {}
  /\ UNCHANGED << settings, client, peer, ordered, unordered, requests >>

NextPoll ==
  \/ \E c \in Clients, m \in MousePositions, dt \in FrameTimes : PollClientSpawn(c, m, dt)
  \/ \E c \in Clients : PollCheckEvents(c)
  \/ \E c \in Clients : PollService(c)
  \/ \E dt \in FrameTimes : PollEnd(dt)
  \/ ServerNoSpawn
  \/ ServerMove
  \/ ServerNoDestroy

SpecPoll == InitPoll /\ [][NextPoll]_vars

\* C17: the poll loop of a frame ends only when the transport reports no
\* more pending events: while the frame's Timer, Spawn, Move and Destroy
\* sections run, no event that was queued in the transport when the loop
\* ended is still waiting to be handled.
C17_EventDraining ==
  server.pc # "poll" => obs.queued = 0

(***************************************************************************)
(* The Move flush (SpecFlush): the server runs its frames with any frame   *)
(* times and any local input, from an empty store; a peer connects at any  *)
(* moment and may be lost again.  What the server sends stays in the       *)
(* channels: the client's poll loop is left out.                           *)
(***************************************************************************)
\* the frames a run of SpecFlush is followed for
MaxFlushFrames == 3

NextFlush ==
  \/ \E c \in Clients : ServerConnect(c)
  \/ \E c \in Clients : ServerDisconnect(c)
  \/ \E dt \in TimerFrameTimes : ServerTimerWithin(dt, MaxFlushFrames)
  \/ \E m \in MousePositions : ServerSpawn(m)
  \/ ServerNoSpawn
  \/ ServerMove
  \/ ServerDestroy
  \/ ServerNoDestroy
  \/ \E c \in Clients : ClientConnect(c)

SpecFlush == Init /\ [][NextFlush]_vars

\* the step is the Move section of a server frame
MoveSection == server.pc = "move" /\ server'.pc = "destroy"

\* the packets of the step are one unreliable Move per index below the
\* count, in order, broadcast to the connected peers
FlushesAll ==
  /\ Len(sent'.packets) = server.entity
  /\ \A i \in DOMAIN sent'.packets :
       /\ ~sent'.packets[i].reliable
       /\ message_id(sent'.packets[i].data) = NET_MESSAGE_MOVE
       /\ binn_list_uint32(sent'.packets[i].data, 2) = i - 1
  /\ sent'.to = Peers

\* C18: the server flushes its Move records only in the Move section of a
\* frame, hence at most once per frame, and only when entities exist, a
\* peer is connected and the send accumulator has reached the send
\* interval; the flush lowers the accumulator by exactly one interval and
\* broadcasts exactly one unreliable Move per index in 0 .. count-1, none
\* for another index; a Move section that does not flush sends nothing and
\* leaves the accumulator alone.
C18_MoveFlush ==
  [][/\ MoveSection =>
          IF ENTITIES_EXIST(server) /\ server.connected > 0 /\ server.sendTime >= sendInterval
            THEN /\ server'.sendTime = server.sendTime - sendInterval
                 /\ FlushesAll
            ELSE /\ server'.sendTime = server.sendTime
                 /\ sent'.packets = << >>
     /\ ~MoveSection =>
          /\ \A i \in DOMAIN sent'.packets : message_id(sent'.packets[i].data) # NET_MESSAGE_MOVE
          /\ server'.sendTime >= server.sendTime]_vars

\* C18 witness: a flush of two batches has left more than one interval in
\* the accumulator
C18_Witness ==
  /\ last.op = "flush"
  /\ last.k = 2 * NET_MAX_ENTITY_SPAWN
  /\ Len(sent.packets) = 2 * NET_MAX_ENTITY_SPAWN
  /\ server.sendTime > sendInterval

(***************************************************************************)
(* Replication to several clients (SpecReplica): one server and two        *)
(* clients.  The server starts empty and runs its frames; each client      *)
(* joins at any moment, before or after batches exist, and one of them     *)
(* asks for batches at any moment once it is connected.  Reliable records  *)
(* arrive in order; of the Move records of a flush any may be dropped, and *)
(* those that arrive do so at any later moment.  No session is lost.       *)
(***************************************************************************)
\* the frames a run of SpecReplica is followed for
MaxReplicaFrames == 1

\* the client programs that connect to the server in the runs of SpecReplica
TwoClients == { 1, 2 }

\* get_frame_time(), in ticks: a frame as long as the send interval, so
\* that its Move section flushes
ReplicaFrameTimes == { 2 }

InitReplica ==
  /\ peer = [c \in TwoClients |-> [client |-> "connecting", server |-> "none"]]
  /\ settings = DefaultSettings
  /\ server = ServerInit
  /\ client = [c \in Clients |-> ClientInit]
  /\ ordered = [c \in Clients |-> << >>]
  /\ unordered = [c \in Clients |-> {}]
  /\ requests = [c \in Clients |-> << >>]
  /\ sent = NoneSent
  /\ last = Step("init", 0, 0, 0)
  /\ oob = {}
  /\ obs = ObsInit

\* the clients whose user gives the spawn input in the runs of SpecReplica:
\* one of the two, which joins before or after the other
Requesters == { 1 }

NextReplica ==
  \/ \E c \in Clients : ServerConnect(c)
  \/ \E c \in Clients : ServerReceive(c)
  \/ \E dt \in ReplicaFrameTimes : ServerTimerWithin(dt, MaxReplicaFrames)
  \/ \E m \in MousePositions : ServerSpawn(m)
  \/ ServerNoSpawn
  \/ ServerMove
  \/ ServerDestroy
  \/ ServerNoDestroy
  \/ \E c \in Clients : ClientConnect(c)
  \/ \E c \in Clients : ClientReceive(c)
  \/ \E c \in Clients : ClientReceiveMove(c)
  \/ \E c \in Requesters, m \in MousePositions, dt \in FrameTimes : ClientSpawn(c, m, dt)

SpecReplica == InitReplica /\ [][NextReplica]_vars

\* both ends hold the session of client c: the client has handled its
\* Connected event and the server has handled the one of this peer
InSession(c) == peer[c].client = "connected" /\ peer[c].server = "connected"

\* every reliable record the server has sent to client c has been applied
AllApplied(c) == ordered[c] = << >>

\* C21: for every client whose session is held by both ends, whenever every
\* reliable record the server has sent to it has been applied, the client's
\* count equals the server's count: after a late join, after batches spawned
\* by the server's input and on clients' requests, after destroys, with Move
\* records dropped or applied at any moment, and with two clients.
C21_CountConvergence ==
  \A c \in Clients :
    (InSession(c) /\ AllApplied(c)) => client[c].entity = server.entity

\* C21 witness: two clients are in session and have applied everything; the
\* last thing applied was the Destroy of the youngest of two batches, one
\* batch is left, a Move record has reached one of the clients, and both
\* counts equal the server's
C21_Witness ==
  /\ Cardinality(Clients) = 2
  /\ \A c \in Clients : InSession(c) /\ AllApplied(c) /\ client[c].entity = server.entity
  /\ server.entity = NET_MAX_ENTITY_SPAWN
  /\ last.op = "receive" /\ last.who \in Clients /\ last.k = NET_MESSAGE_DESTROY
  /\ last.pre > NET_MAX_ENTITY_SPAWN
  /\ \E c \in Clients : client[c].destination[0] # ZeroVec

(***************************************************************************)
(* An index used again (SpecRespawn): one server and one client.  The      *)
(* server's entities are drawn with a velocity, so that they move and the  *)
(* client interpolates; the server spawns, flushes and destroys batches    *)
(* over its frames, and the client applies what reaches it and runs its    *)
(* own frames in between.  obs.fresh holds the entities the client has     *)
(* spawned and applied no Move record for since, obs.pos the position      *)
(* each of them was spawned at.                                            *)
(***************************************************************************)
\* the frames a run of SpecRespawn is followed for
MaxRespawnFrames == 2

\* RayGetRandomValue: a velocity that is not zero, and a palette index
RespawnDraws == { [speed |-> Vec(1, 0), color |-> 1] }

InitRespawn ==
  /\ peer = [c \in OneClient |-> [client |-> "connecting", server |-> "none"]]
  /\ settings = DefaultSettings
  /\ server = ServerInit
  /\ client = [c \in Clients |-> ClientInit]
  /\ ordered = [c \in Clients |-> << >>]
  /\ unordered = [c \in Clients |-> {}]
  /\ requests = [c \in Clients |-> << >>]
  /\ sent = NoneSent
  /\ last = Step("init", 0, 0, 0)
  /\ oob = {}
  /\ obs = [open |-> FALSE, elapsed |-> 0, flushes |-> 0, fresh |-> {}, pos |-> CallocVec]

\* Spawn, server, with the mouse button down or space pressed: the
\* entities are drawn from RespawnDraws
RespawnSpawn(mousePosition) ==
  /\ server.pc = "spawn"
  /\ settings.headlessMode = 0
  /\ \E rnd \in [NewSlots(server, NET_MAX_ENTITY_SPAWN) -> RespawnDraws], junk \in Junk :
       LET st == server_entity_spawn(server, mousePosition, NET_MAX_ENTITY_SPAWN, rnd)
           from == U32(st.entity - NET_MAX_ENTITY_SPAWN)
           packets == IF st.connected > 0 THEN spawn_broadcast_loop(st, from, junk) ELSE << >>
       IN /\ server' = [st EXCEPT !.pc = "move"]
          /\ SendReliable(Peers, packets)
          /\ oob' = (IF st.connected > 0
                       THEN OutOfBounds(LoopIds(from, st.entity), "server read") ELSE {})
          /\ last' = Step("spawn", 0, NET_MAX_ENTITY_SPAWN, server.entity)
  /\ UNCHANGED << settings, client, peer, unordered, requests, obs >>

\* what applying a record makes of the observation: a Spawn record makes
\* its entity fresh at the position it carries, a Move record ends the
\* freshness of its entity, a Destroy record that of every entity from its
\* cutoff on
Observe(data) ==
  LET id == message_id(data)
      entityRemote == binn_list_uint32(data, 2)
  IN IF id = NET_MESSAGE_SPAWN /\ entityRemote \in Slots
       THEN [obs EXCEPT !.fresh = @ \cup {entityRemote},
                        !.pos[entityRemote] = Vec(binn_list_float(data, 3), binn_list_float(data, 4))]
     ELSE IF id = NET_MESSAGE_MOVE
       THEN [obs EXCEPT !.fresh = @ \ {entityRemote}]
     ELSE IF id = NET_MESSAGE_DESTROY
       THEN [obs EXCEPT !.fresh = {i \in @ : i < entityRemote}]
     ELSE obs

\* case ENET_EVENT_TYPE_RECEIVE, client: the next reliable packet
RespawnReceive(c) ==
  /\ peer[c].client = "connected"
  /\ ordered[c] # << >>
  /\ LET data == Head(ordered[c]).data
     IN /\ client' = [client EXCEPT ![c] = client_message_receive(@, data)]
        /\ oob' = OutOfBounds(WrittenIds(data), "client write")
        /\ last' = Step("receive", c, message_id(data), client[c].entity)
        /\ obs' = Observe(data)
  /\ ordered' = [ordered EXCEPT ![c] = Tail(@)]
  /\ sent' = NoneSent
  /\ UNCHANGED << settings, server, peer, unordered, requests >>

\* case ENET_EVENT_TYPE_RECEIVE, client: an unreliable packet, in any order
\* among the unreliable ones.  The runs are those where it arrives after
\* every reliable packet sent so far and for an entity the client holds:
\* no Move record is applied ahead of the Spawn record of its entity, and
\* none after the Destroy record that removed it.
RespawnReceiveMove(c) ==
  /\ peer[c].client = "connected"
  /\ ordered[c] = << >>
  /\ \E packet \in unordered[c] :
       /\ binn_list_uint32(packet.data, 2) < client[c].entity
       /\ client' = [client EXCEPT ![c] = client_message_receive(@, packet.data)]
       /\ oob' = OutOfBounds(WrittenIds(packet.data), "client write")
       /\ last' = Step("receive", c, message_id(packet.data), client[c].entity)
       /\ unordered' = [unordered EXCEPT ![c] = @ \ {packet}]
       /\ obs' = Observe(packet.data)
  /\ sent' = NoneSent
  /\ UNCHANGED << settings, server, peer, ordered, requests >>

NextRespawn ==
  \/ \E c \in Clients : ServerConnect(c)
  \/ \E dt \in ReplicaFrameTimes : ServerTimerWithin(dt, MaxRespawnFrames)
  \/ \E m \in MousePositions : RespawnSpawn(m)
  \/ ServerNoSpawn
  \/ ServerMove
  \/ ServerDestroy
  \/ ServerNoDestroy
  \/ \E c \in Clients : ClientConnect(c)
  \/ \E c \in Clients : RespawnReceive(c)
  \/ \E c \in Clients : RespawnReceiveMove(c)
  \/ \E c \in Clients, dt \in FrameTimes : ClientMove(c, dt)

SpecRespawn == InitRespawn /\ [][NextRespawn]_vars

\* C22: after the client has applied Spawn(id, pos, ...), the position of
\* entity id is pos in every later state until the client applies a Move
\* record for id, also when id belonged before to an entity that was moved
\* and then removed by a Destroy record.
C22_FreshSpawnStaysPut ==
  \A c \in Clients : \A id \in obs.fresh : client[c].position[id] = obs.pos[id]
=============================================================================
